---- MODULE Spec2Model ----
(***************************************************************************)
(* A model of src/src/lib.rs: the Whisper log-mel feature extractor behind *)
(* the C ABI symbols extract_whisper_features and free_spectrogram_data.   *)
(*                                                                         *)
(* extract_whisper_features is a straight-line pipeline; every stage is    *)
(* one action, taken in the order of the source, and `pc` names the stage  *)
(* that runs next.  A stage that returns Err ends the call with the        *)
(* default (null) record.                                                  *)
(*                                                                         *)
(* Dimensions.  The source fixes 480000 samples, frames of 400 with hop    *)
(* 160, 201 bins, 80 mel bands and 3000 frames.  TLC cannot enumerate      *)
(* buffers of that size, so the buffers of the model are built with        *)
(* N_FRAMES, N_MELS, HOP_LENGTH and HALF_FRAME, which keep the relations   *)
(* between the literals of the source (480000 = 3000 * 160, the frame      *)
(* length is even, 201 = 400 / 2 + 1).  Every length computation of the    *)
(* source is an operator on numbers (padded_len, num_frames, n_bins,       *)
(* free_len) and is evaluated with the literals of the source as well.     *)
(*                                                                         *)
(* Numbers.  An f32 is a fixed-point integer, ONE units to 1.0, in the     *)
(* sample buffers and from the log stage on.  Between the Hann window and  *)
(* the mel projection the values go through cos(), an external FFT and a   *)
(* filter bank built with ln()/exp(); there a value is abstracted to       *)
(* "Z" (exactly 0.0), "NZ" (finite, not zero) or "U" (finite, unknown),    *)
(* and the logarithm of a cell that is not "Z" is supplied by the          *)
(* environment.                                                            *)
(***************************************************************************)
EXTENDS Integers, Sequences, FiniteSets, TLC

VARIABLES
    pc,     \* the stage of extract_whisper_features that runs next, or "idle"
    arg,    \* the argument of the running call: the path and the file behind it
    loc,    \* the locals of extract_whisper_features
    obs,    \* what the decoder met in the running call
    ran,    \* the stages that have run in the latest call, in order
    err,    \* the stage that reported an error in the latest call, or "none"
    ret,    \* the record the latest call returned
    heap,   \* the buffers leaked to the caller, by address
    held,   \* the records the caller holds and has not handed back
    calls,  \* the number of calls of extract_whisper_features so far
    fx      \* a pure function applied to an input drawn from a bounded set

vars == <<pc, arg, loc, obs, ran, err, ret, heap, held, calls, fx>>

---------------------------------------------------------------------------
(* The literals of the source.                                             *)

WHISPER_TARGET_LEN == 480000
WHISPER_FRAME_LENGTH == 400
WHISPER_HOP_LENGTH == 160
WHISPER_N_BINS == 201
WHISPER_N_MELS == 80
WHISPER_N_FRAMES == 3000
TARGET_RATE == 16000
I16_MAX == 32767

(* The dimensions of the model's buffers.                                  *)

N_FRAMES == 3
N_MELS == 2
HOP_LENGTH == 2
HALF_FRAME == 2
FRAME_LENGTH == 2 * HALF_FRAME
TARGET_LEN == N_FRAMES * HOP_LENGTH
N_BINS == FRAME_LENGTH \div 2 + 1

(* The bounds of the environment.                                          *)

MaxExtra == 1       \* sample frames a file may hold beyond TARGET_LEN
MaxCalls == 2       \* calls of extract_whisper_features
MaxDim == 2         \* rows and columns of a matrix handed to a pure function
MaxFreq == 3        \* the largest frequency handed to the filter bank

\* The fixed-point unit: a multiple of 4, so that the division by 4.0 of
\* apply_dynamic_range_compression is exact on the grid.
ONE == 4 * 25

---------------------------------------------------------------------------
(* Helpers.                                                                *)

Ok(v) == [ok |-> TRUE, val |-> v]
Err(msg) == [ok |-> FALSE, val |-> msg]

Zeros(n) == [i \in 1..n |-> 0]

Max2(a, b) == IF a >= b THEN a ELSE b
Min2(a, b) == IF a <= b THEN a ELSE b

RECURSIVE SeqSum(_)
SeqSum(s) == IF s = <<>> THEN 0 ELSE Head(s) + SeqSum(Tail(s))

RECURSIVE Flatten(_)
Flatten(rows) == IF rows = <<>> THEN <<>> ELSE Head(rows) \o Flatten(Tail(rows))

\* a / b on the fixed-point grid (b # 0)
FDiv(a, b) == IF b > 0 THEN (a * ONE) \div b ELSE ((0 - a) * ONE) \div (0 - b)

---------------------------------------------------------------------------
(* MelSpectrogramData and its Default.                                     *)

Null == 0

MelSpectrogramData(data, n_frames, n_mels) ==
    [data |-> data, n_frames |-> n_frames, n_mels |-> n_mels]

MelSpectrogramData_default == MelSpectrogramData(Null, 0, 0)

---------------------------------------------------------------------------
(* read_wav.  A file either fails to open or yields a header and, for      *)
(* every sample of its data chunk, the result of reading it.               *)

Sample(v) == [ok |-> TRUE, v |-> v]
ReadError == [ok |-> FALSE, v |-> 0]

\* s as f32 / i16::MAX as f32
i16_to_f32(s) == (s * ONE) \div I16_MAX

\* samples.chunks(n): the last chunk may be shorter
chunks(s, n) ==
    [c \in 1..((Len(s) + n - 1) \div n) |->
        SubSeq(s, (c - 1) * n + 1, Min2(c * n, Len(s)))]

read_wav(file) ==
    IF ~file.opens
    THEN Err("Failed to open WAV")
    ELSE LET read == SelectSeq(file.data, LAMBDA r : r.ok)
             samples == [i \in 1..Len(read) |-> i16_to_f32(read[i].v)]
             ch == chunks(samples, file.channels)
             mono == IF file.channels = 1
                     THEN samples
                     ELSE [c \in 1..Len(ch) |-> SeqSum(ch[c]) \div Len(ch[c])]
         IN Ok([mono |-> mono, orig_sample_rate |-> file.sample_rate])

---------------------------------------------------------------------------
(* resample_audio.  The resampler is an external library: when the rates   *)
(* differ its outcome `lib` is an error or some buffer.                    *)

resample_audio(samples, orig_rate, target_rate, lib) ==
    IF orig_rate = target_rate THEN Ok(samples) ELSE lib

---------------------------------------------------------------------------
(* pad_or_truncate.                                                        *)

padded_len(len, target_len, frame_length) ==
    LET inner == IF len > target_len THEN target_len
                 ELSE IF len < target_len THEN len + (target_len - len)
                 ELSE len
        pad_each == frame_length \div 2
    IN pad_each + inner + pad_each

\* pad_or_truncate without the truncate of a longer buffer
pad_or_truncate_no_truncate(samples, target_len, frame_length) ==
    LET s == IF Len(samples) < target_len
             THEN samples \o Zeros(target_len - Len(samples))
             ELSE samples
        pad_each == frame_length \div 2
    IN Ok(Zeros(pad_each) \o s \o Zeros(pad_each))

pad_or_truncate(samples, target_len, frame_length) ==
    LET s == IF Len(samples) > target_len
             THEN SubSeq(samples, 1, target_len)
             ELSE IF Len(samples) < target_len
                  THEN samples \o Zeros(target_len - Len(samples))
                  ELSE samples
        pad_each == frame_length \div 2
    IN Ok(Zeros(pad_each) \o s \o Zeros(pad_each))

---------------------------------------------------------------------------
(* frame_signal.                                                           *)

\* num_frames without the + hop_length
num_frames_no_hop(len, frame_length, hop_length) ==
    (len - frame_length) \div hop_length

num_frames(len, frame_length, hop_length) ==
    (len - frame_length + hop_length) \div hop_length

frame_signal(samples, frame_length, hop_length) ==
    LET n == num_frames(Len(samples), frame_length, hop_length)
        starts == SelectSeq([i \in 1..n |-> (i - 1) * hop_length],
                            LAMBDA start : start + frame_length <= Len(samples))
    IN Ok([r \in 1..Len(starts) |->
              SubSeq(samples, starts[r] + 1, starts[r] + frame_length)])

---------------------------------------------------------------------------
(* The stages between the Hann window and the mel projection, on the       *)
(* abstract values "Z" (exactly 0.0), "NZ" (finite, not zero) and "U"      *)
(* (finite, unknown).                                                      *)

Abs(x) == IF x = 0 THEN "Z" ELSE "NZ"

AMul(a, b) ==
    IF a = "Z" \/ b = "Z" THEN "Z"
    ELSE IF a = "NZ" /\ b = "NZ" THEN "NZ" ELSE "U"

\* a sum of terms none of which is negative
ASum(terms) ==
    IF \A i \in DOMAIN terms : terms[i] = "Z" THEN "Z"
    ELSE IF \E i \in DOMAIN terms : terms[i] = "NZ" THEN "NZ" ELSE "U"

\* hann[i] = 0.5 - 0.5 * cos(2 pi i / frame_len), i = 0 .. frame_len - 1:
\* zero at i = 0 and positive elsewhere
hann(i, frame_len) == IF i = 0 THEN "Z" ELSE "NZ"

apply_hann_window(frames) ==
    LET frame_len == Len(frames[1])
    IN Ok([f \in 1..Len(frames) |->
              [i \in 1..Len(frames[f]) |->
                  AMul(Abs(frames[f][i]), hann(i - 1, frame_len))]])

\* the length of the output of a real FFT of frame_len samples
n_bins(frame_len) == frame_len \div 2 + 1

\* The FFT is an external library and linear: the spectrum of a frame of
\* zeros is zero, any other spectrum is unknown.  `lib_ok` is whether the
\* library reports success.
apply_rfft(frames, lib_ok) ==
    LET frame_len == Len(frames[1])
        rfft(frame) ==
            [k \in 1..n_bins(frame_len) |->
                IF \A i \in DOMAIN frame : frame[i] = "Z" THEN "Z" ELSE "U"]
    IN IF lib_ok
       THEN Ok([f \in 1..Len(frames) |-> rfft(frames[f])])
       ELSE Err("FFT error")

\* c.norm_sqr() = re * re + im * im: zero exactly when c is
norm_sqr(c) == IF c = "Z" THEN "Z" ELSE IF c = "NZ" THEN "NZ" ELSE "U"

power_spectrogram(spectrogram) ==
    Ok([f \in 1..Len(spectrogram) |->
           [k \in 1..Len(spectrogram[f]) |-> norm_sqr(spectrogram[f][k])]])

---------------------------------------------------------------------------
(* The mel filter bank.  create_triangular_filter_bank is computed on      *)
(* integer frequencies with fixed-point weights.                           *)

\* create_triangular_filter_bank with the up slope read one entry early
create_triangular_filter_bank_early(fft_freqs, filter_freqs) ==
    LET num_frequency_bins == Len(fft_freqs)
        num_mel_filters == Len(filter_freqs) - 2
        filter_diffs == [i \in 1..(Len(filter_freqs) - 1) |->
                            filter_freqs[i + 1] - filter_freqs[i]]
        slopes(k) == [i \in 1..Len(filter_freqs) |-> filter_freqs[i] - fft_freqs[k]]
        down_slope(k, m) == IF filter_diffs[m] # 0
                            THEN FDiv(0 - slopes(k)[m], filter_diffs[m])
                            ELSE 0
        up_slope(k, m) == IF filter_diffs[m + 1] # 0
                          THEN FDiv(slopes(k)[m + 1], filter_diffs[m + 1])
                          ELSE 0
    IN IF num_mel_filters <= 0
       THEN Err("Number of mel filters must be positive.")
       ELSE Ok([k \in 1..num_frequency_bins |->
                   [m \in 1..num_mel_filters |->
                       Max2(Min2(down_slope(k, m), up_slope(k, m)), 0)]])

create_triangular_filter_bank(fft_freqs, filter_freqs) ==
    LET num_frequency_bins == Len(fft_freqs)
        num_mel_filters == Len(filter_freqs) - 2
        filter_diffs == [i \in 1..(Len(filter_freqs) - 1) |->
                            filter_freqs[i + 1] - filter_freqs[i]]
        slopes(k) == [i \in 1..Len(filter_freqs) |-> filter_freqs[i] - fft_freqs[k]]
        down_slope(k, m) == IF filter_diffs[m] # 0
                            THEN FDiv(0 - slopes(k)[m], filter_diffs[m])
                            ELSE 0
        up_slope(k, m) == IF filter_diffs[m + 1] # 0
                          THEN FDiv(slopes(k)[m + 2], filter_diffs[m + 1])
                          ELSE 0
    IN IF num_mel_filters <= 0
       THEN Err("Number of mel filters must be positive.")
       ELSE Ok([k \in 1..num_frequency_bins |->
                   [m \in 1..num_mel_filters |->
                       Max2(Min2(down_slope(k, m), up_slope(k, m)), 0)]])

\* In the pipeline the filter frequencies come from ln() and exp(): the
\* weights are finite, not negative and otherwise unknown.
mel_filter_bank(num_frequency_bins, num_mel_filters) ==
    IF (num_mel_filters + 2) - 2 <= 0
    THEN Err("Number of mel filters must be positive.")
    ELSE Ok([k \in 1..num_frequency_bins |-> [m \in 1..num_mel_filters |-> "U"]])

\* the triple loop of extract_whisper_features: frames x mels x bins
mel_projection(power_spec, mel_filters, frames, mels, bins) ==
    [i \in 1..frames |->
        [m \in 1..mels |->
            ASum([k \in 1..bins |-> AMul(power_spec[i][k], mel_filters[k][m])])]]

---------------------------------------------------------------------------
(* apply_log.  log10(max(0.0, 1e-10)) is -10; the logarithm of a cell that *)
(* is not known to be zero is `logs[i][m]`, no smaller than -10.           *)

LOG_EPSILON == -10

\* apply_log with an epsilon of 1e-8
apply_log_eps8(mel_spectrogram, logs) ==
    Ok([i \in DOMAIN mel_spectrogram |->
           [m \in DOMAIN mel_spectrogram[i] |->
               IF mel_spectrogram[i][m] = "Z"
               THEN (0 - 8) * ONE
               ELSE Max2(logs[i][m], (0 - 8) * ONE)]])

apply_log(mel_spectrogram, logs) ==
    IF \E i \in DOMAIN mel_spectrogram :
           \E m \in DOMAIN mel_spectrogram[i] : mel_spectrogram[i][m] = "NaN"
    THEN Err("Encountered nan value in mel spectrogram")
    ELSE Ok([i \in DOMAIN mel_spectrogram |->
                [m \in DOMAIN mel_spectrogram[i] |->
                    IF mel_spectrogram[i][m] = "Z"
                    THEN LOG_EPSILON * ONE
                    ELSE Max2(logs[i][m], LOG_EPSILON * ONE)]])

---------------------------------------------------------------------------
(* apply_dynamic_range_compression.                                        *)

\* the loop over all cells that starts from f32::NEG_INFINITY
RECURSIVE max_loop(_, _)
max_loop(cells, acc) ==
    IF cells = <<>> THEN acc
    ELSE max_loop(Tail(cells),
                  IF acc.neg_infinity \/ Head(cells) > acc.v
                  THEN [neg_infinity |-> FALSE, v |-> Head(cells)]
                  ELSE acc)

max_val(matrix) == max_loop(Flatten(matrix), [neg_infinity |-> TRUE, v |-> 0]).v

\* apply_dynamic_range_compression with a floor 12.0 below the maximum
apply_dynamic_range_compression_floor12(mel_log_spectrogram) ==
    IF mel_log_spectrogram = <<>> \/ mel_log_spectrogram[1] = <<>>
    THEN Ok(mel_log_spectrogram)
    ELSE LET floor_val == max_val(mel_log_spectrogram) - 12 * ONE
         IN Ok([i \in DOMAIN mel_log_spectrogram |->
                   [m \in DOMAIN mel_log_spectrogram[i] |->
                       (Max2(mel_log_spectrogram[i][m], floor_val) + 4 * ONE) \div 4]])

\* apply_dynamic_range_compression with the maximum taken of the first row only
apply_dynamic_range_compression_row_max(mel_log_spectrogram) ==
    IF mel_log_spectrogram = <<>> \/ mel_log_spectrogram[1] = <<>>
    THEN Ok(mel_log_spectrogram)
    ELSE LET floor_val == max_val(<<mel_log_spectrogram[1]>>) - 8 * ONE
         IN Ok([i \in DOMAIN mel_log_spectrogram |->
                   [m \in DOMAIN mel_log_spectrogram[i] |->
                       (Max2(mel_log_spectrogram[i][m], floor_val) + 4 * ONE) \div 4]])

apply_dynamic_range_compression(mel_log_spectrogram) ==
    IF mel_log_spectrogram = <<>> \/ mel_log_spectrogram[1] = <<>>
    THEN Ok(mel_log_spectrogram)
    ELSE LET floor_val == max_val(mel_log_spectrogram) - 8 * ONE
         IN Ok([i \in DOMAIN mel_log_spectrogram |->
                   [m \in DOMAIN mel_log_spectrogram[i] |->
                       (Max2(mel_log_spectrogram[i][m], floor_val) + 4 * ONE) \div 4]])

---------------------------------------------------------------------------
(* transpose: a fixed mels x frames matrix of zeros, filled from the       *)
(* argument.                                                               *)

\* transpose that reshapes the rows instead of exchanging the indices
transpose_reshape(matrix, mels, frames) ==
    Ok([i \in 1..mels |->
           [j \in 1..frames |->
               LET p == (i - 1) * frames + j
               IN IF p <= Len(Flatten(matrix)) THEN Flatten(matrix)[p] ELSE 0]])

transpose(matrix, mels, frames) ==
    LET num_rows == Len(matrix)
        num_cols == Len(matrix[1])
    IN Ok([i \in 1..mels |->
              [j \in 1..frames |->
                  IF i <= num_cols /\ j <= num_rows THEN matrix[j][i] ELSE 0]])

---------------------------------------------------------------------------
(* The flat buffer, the heap and free_spectrogram_data.  An address is the *)
(* index of its allocation in `heap`.                                      *)

\* the record with the frame count of the framer
leaked_record_framer_count(data_ptr) == MelSpectrogramData(data_ptr, N_FRAMES + 1, N_MELS)

\* the record extract_whisper_features returns on success
leaked_record(data_ptr) == MelSpectrogramData(data_ptr, N_FRAMES, N_MELS)

\* Box::leak(flat_spectrogram.into_boxed_slice())
Allocation(len) == [len |-> len, live |-> TRUE, releases |-> 0, released_len |-> 0]

\* the length without the mel bands
free_len_frames_only(n_frames, n_mels) == n_frames

\* the length free_spectrogram_data rebuilds the slice with
free_len(n_frames, n_mels) == n_frames * n_mels

free_spectrogram_data(h, spectrogram_data) ==
    IF spectrogram_data.data # Null
    THEN LET len == free_len(spectrogram_data.n_frames, spectrogram_data.n_mels)
         IN [h EXCEPT ![spectrogram_data.data] =
                [@ EXCEPT !.live = FALSE,
                          !.releases = @ + 1,
                          !.released_len = len]]
    ELSE h

---------------------------------------------------------------------------
(* The environment: the files a path may name and what the external        *)
(* libraries may answer.                                                   *)

FrameCounts == 0..(TARGET_LEN + MaxExtra)

Silence(n) == [i \in 1..n |-> Sample(0)]
Ramp(n) == [i \in 1..n |-> Sample(1000 * i)]
\* the reads fail from sample k on (k = 1: every read fails, as for a file
\* of another bit depth; k = n: a data chunk cut short)
FailFrom(data, k) == [i \in 1..Len(data) |-> IF i >= k THEN ReadError ELSE data[i]]

Datas(channels) ==
    UNION { {Silence(n * channels), Ramp(n * channels)} : n \in FrameCounts }
    \cup UNION { {FailFrom(Ramp(n * channels), 1),
                  FailFrom(Ramp(n * channels), n * channels)} :
                 n \in FrameCounts \ {0} }

NoFile == [opens |-> FALSE, sample_rate |-> 0, channels |-> 1, data |-> <<>>]

Files ==
    {NoFile} \cup
    { [opens |-> TRUE, sample_rate |-> r, channels |-> c, data |-> d] :
        r \in {TARGET_RATE, TARGET_RATE \div 2}, c \in {1}, d \in Datas(1) } \cup
    { [opens |-> TRUE, sample_rate |-> r, channels |-> c, data |-> d] :
        r \in {TARGET_RATE, TARGET_RATE \div 2}, c \in {2}, d \in Datas(2) }

NoArg == [path_ok |-> FALSE, file |-> NoFile]

Args == {NoArg} \cup { [path_ok |-> TRUE, file |-> f] : f \in Files }

ResampleOutcomes ==
    {Err("Resampler init error")} \cup
    { Ok(Zeros(n)) : n \in FrameCounts } \cup
    { Ok([i \in 1..n |-> 3 * i]) : n \in FrameCounts \ {0} }

\* The logarithms of the mel energies that are not known to be zero: all
\* different and within 8.0 of each other; in steps of 4.0 down to below
\* the floor of apply_log; all equal.
LogLabel == [i \in 1..N_FRAMES |-> [m \in 1..N_MELS |-> 0 - 4 * ((i - 1) * N_MELS + m - 1)]]
LogSteps == [i \in 1..N_FRAMES |-> [m \in 1..N_MELS |-> 0 - 4 * ONE * ((i + m) % 4)]]
LogFlat == [i \in 1..N_FRAMES |-> [m \in 1..N_MELS |-> 0]]
LogOracles == {LogLabel, LogSteps, LogFlat}

---------------------------------------------------------------------------
(* The state.                                                              *)

Stages ==
    <<"to_str", "read_wav", "resample_audio", "pad_or_truncate", "frame_signal",
      "apply_hann_window", "apply_rfft", "power_spectrogram", "mel_filter_bank",
      "mel_projection", "apply_log", "apply_dynamic_range_compression",
      "transpose", "leak">>

NoLocals ==
    [mono |-> <<>>, orig_sample_rate |-> 0, resampled |-> <<>>, padded |-> <<>>,
     framed |-> <<>>, hann_weighted |-> <<>>, rfft_spectrogram |-> <<>>,
     power_spec |-> <<>>, mel_filters |-> <<>>, mel_spectrogram |-> <<>>,
     mel_log_spectrogram |-> <<>>, final_spectrogram |-> <<>>,
     transposed_spectrogram |-> <<>>, flat_spectrogram |-> <<>>]

NoObs == [open_failed |-> FALSE, read_failed |-> FALSE, silent |-> FALSE, decoded |-> 0]

NoFx == [fn |-> "none", input |-> <<>>, output |-> <<>>, done |-> FALSE]

Init ==
    /\ pc = "idle"
    /\ arg = NoArg
    /\ loc = NoLocals
    /\ obs = NoObs
    /\ ran = <<>>
    /\ err = "none"
    /\ ret = MelSpectrogramData_default
    /\ heap = <<>>
    /\ held = {}
    /\ calls = 0
    /\ fx = NoFx

---------------------------------------------------------------------------
(* extract_whisper_features, stage by stage.  Every value is moved into    *)
(* the stage that consumes it: `loc` keeps a stage's argument and result,  *)
(* and final_spectrogram until the call returns.                           *)

\* the stage ran and the call goes on with the locals l
Advance(stage, next, l) ==
    /\ pc' = next
    /\ loc' = l
    /\ ran' = Append(ran, stage)
    /\ UNCHANGED <<err, ret, heap, held, calls, fx>>

\* Err(..) => { eprintln!(..); return MelSpectrogramData::default(); }
Fail(stage) ==
    /\ pc' = "idle"
    /\ ran' = Append(ran, stage)
    /\ err' = stage
    /\ ret' = MelSpectrogramData_default
    /\ UNCHANGED <<loc, heap, held, calls, fx>>

\* an index out of range: the call never returns
Panic(stage) ==
    /\ pc' = "panicked"
    /\ ran' = Append(ran, stage)
    /\ UNCHANGED <<loc, err, ret, heap, held, calls, fx>>

Call ==
    /\ pc = "idle"
    /\ calls < MaxCalls
    /\ \E a \in Args : arg' = a
    /\ pc' = "to_str"
    /\ calls' = calls + 1
    /\ loc' = NoLocals
    /\ obs' = NoObs
    /\ ran' = <<>>
    /\ err' = "none"
    /\ UNCHANGED <<ret, heap, held, fx>>

ToStr ==
    /\ pc = "to_str"
    /\ IF arg.path_ok
       THEN Advance("to_str", "read_wav", loc)
       ELSE Fail("to_str")
    /\ UNCHANGED <<arg, obs>>

ReadWav ==
    /\ pc = "read_wav"
    /\ LET r == read_wav(arg.file)
       IN IF r.ok
          THEN /\ Advance("read_wav", "resample_audio",
                          [NoLocals EXCEPT !.mono = r.val.mono,
                                           !.orig_sample_rate = r.val.orig_sample_rate])
               /\ obs' = [open_failed |-> FALSE,
                          read_failed |-> \E i \in DOMAIN arg.file.data : ~arg.file.data[i].ok,
                          silent |-> /\ r.val.orig_sample_rate = TARGET_RATE
                                     /\ \A i \in DOMAIN r.val.mono : r.val.mono[i] = 0,
                          decoded |-> Len(r.val.mono)]
          ELSE /\ Fail("read_wav")
               /\ obs' = [NoObs EXCEPT !.open_failed = TRUE]
    /\ arg' = NoArg

Resample ==
    /\ pc = "resample_audio"
    /\ \E lib \in ResampleOutcomes :
         LET r == resample_audio(loc.mono, loc.orig_sample_rate, TARGET_RATE, lib)
         IN IF r.ok
            THEN Advance("resample_audio", "pad_or_truncate",
                         [NoLocals EXCEPT !.resampled = r.val])
            ELSE Fail("resample_audio")
    /\ UNCHANGED <<arg, obs>>

PadOrTruncate ==
    /\ pc = "pad_or_truncate"
    /\ LET r == pad_or_truncate(loc.resampled, TARGET_LEN, FRAME_LENGTH)
       IN IF r.ok
          THEN Advance("pad_or_truncate", "frame_signal",
                       [NoLocals EXCEPT !.resampled = loc.resampled, !.padded = r.val])
          ELSE Fail("pad_or_truncate")
    /\ UNCHANGED <<arg, obs>>

\* the eprintln! after the call reads framed[0]
FrameSignal ==
    /\ pc = "frame_signal"
    /\ LET r == frame_signal(loc.padded, FRAME_LENGTH, HOP_LENGTH)
       IN IF ~r.ok THEN Fail("frame_signal")
          ELSE IF r.val = <<>> THEN Panic("frame_signal")
          ELSE Advance("frame_signal", "apply_hann_window",
                       [NoLocals EXCEPT !.padded = loc.padded, !.framed = r.val])
    /\ UNCHANGED <<arg, obs>>

HannWindow ==
    /\ pc = "apply_hann_window"
    /\ LET r == apply_hann_window(loc.framed)
       IN IF r.ok
          THEN Advance("apply_hann_window", "apply_rfft",
                       [NoLocals EXCEPT !.framed = loc.framed, !.hann_weighted = r.val])
          ELSE Fail("apply_hann_window")
    /\ UNCHANGED <<arg, obs>>

Rfft ==
    /\ pc = "apply_rfft"
    /\ \E lib_ok \in BOOLEAN :
         LET r == apply_rfft(loc.hann_weighted, lib_ok)
         IN IF r.ok
            THEN Advance("apply_rfft", "power_spectrogram",
                         [NoLocals EXCEPT !.hann_weighted = loc.hann_weighted,
                                          !.rfft_spectrogram = r.val])
            ELSE Fail("apply_rfft")
    /\ UNCHANGED <<arg, obs>>

Power ==
    /\ pc = "power_spectrogram"
    /\ LET r == power_spectrogram(loc.rfft_spectrogram)
       IN IF r.ok
          THEN Advance("power_spectrogram", "mel_filter_bank",
                       [NoLocals EXCEPT !.rfft_spectrogram = loc.rfft_spectrogram,
                                        !.power_spec = r.val])
          ELSE Fail("power_spectrogram")
    /\ UNCHANGED <<arg, obs>>

MelFilterBank ==
    /\ pc = "mel_filter_bank"
    /\ LET r == mel_filter_bank(N_BINS, N_MELS)
       IN IF r.ok
          THEN Advance("mel_filter_bank", "mel_projection",
                       [NoLocals EXCEPT !.power_spec = loc.power_spec,
                                        !.mel_filters = r.val])
          ELSE Fail("mel_filter_bank")
    /\ UNCHANGED <<arg, obs>>

\* for i in 0..3000 { for m in 0..80 { for k in 0..201 { .. } } }
MelProjection ==
    /\ pc = "mel_projection"
    /\ IF \/ Len(loc.power_spec) < N_FRAMES
          \/ \E i \in 1..N_FRAMES : Len(loc.power_spec[i]) < N_BINS
          \/ Len(loc.mel_filters) < N_BINS
          \/ \E k \in 1..N_BINS : Len(loc.mel_filters[k]) < N_MELS
       THEN Panic("mel_projection")
       ELSE Advance("mel_projection", "apply_log",
                    [NoLocals EXCEPT
                        !.power_spec = loc.power_spec,
                        !.mel_spectrogram =
                            mel_projection(loc.power_spec, loc.mel_filters,
                                           N_FRAMES, N_MELS, N_BINS)])
    /\ UNCHANGED <<arg, obs>>

ApplyLog ==
    /\ pc = "apply_log"
    /\ \E logs \in LogOracles :
         LET r == apply_log(loc.mel_spectrogram, logs)
         IN IF r.ok
            THEN Advance("apply_log", "apply_dynamic_range_compression",
                         [NoLocals EXCEPT !.mel_spectrogram = loc.mel_spectrogram,
                                          !.mel_log_spectrogram = r.val])
            ELSE Fail("apply_log")
    /\ UNCHANGED <<arg, obs>>

Compress ==
    /\ pc = "apply_dynamic_range_compression"
    /\ LET r == apply_dynamic_range_compression(loc.mel_log_spectrogram)
       IN IF r.ok
          THEN Advance("apply_dynamic_range_compression", "transpose",
                       [NoLocals EXCEPT !.mel_log_spectrogram = loc.mel_log_spectrogram,
                                        !.final_spectrogram = r.val])
          ELSE Fail("apply_dynamic_range_compression")
    /\ UNCHANGED <<arg, obs>>

Transpose ==
    /\ pc = "transpose"
    /\ IF \/ loc.final_spectrogram = <<>>
          \/ Len(loc.final_spectrogram) > N_FRAMES
          \/ Len(loc.final_spectrogram[1]) > N_MELS
       THEN Panic("transpose")
       ELSE LET r == transpose(loc.final_spectrogram, N_MELS, N_FRAMES)
            IN IF r.ok
               THEN Advance("transpose", "leak",
                            [NoLocals EXCEPT !.final_spectrogram = loc.final_spectrogram,
                                             !.transposed_spectrogram = r.val])
               ELSE Fail("transpose")
    /\ UNCHANGED <<arg, obs>>

\* flatten, into_boxed_slice, Box::leak and the return of the record
Leak ==
    /\ pc = "leak"
    /\ LET flat_spectrogram == Flatten(loc.transposed_spectrogram)
           data_ptr == Len(heap) + 1
       IN /\ heap' = Append(heap, Allocation(Len(flat_spectrogram)))
          /\ ret' = leaked_record(data_ptr)
          /\ held' = held \cup {leaked_record(data_ptr)}
          /\ loc' = [NoLocals EXCEPT !.final_spectrogram = loc.final_spectrogram,
                                     !.flat_spectrogram = flat_spectrogram]
    /\ pc' = "idle"
    /\ ran' = Append(ran, "leak")
    /\ UNCHANGED <<arg, obs, err, calls, fx>>

\* the caller hands back a record it holds
Free ==
    /\ pc = "idle"
    /\ \E r \in held :
         /\ heap' = free_spectrogram_data(heap, r)
         /\ held' = held \ {r}
    /\ UNCHANGED <<pc, arg, loc, obs, ran, err, ret, calls, fx>>

\* the caller hands in the null record
FreeNull ==
    /\ pc = "idle"
    /\ heap' = free_spectrogram_data(heap, MelSpectrogramData_default)
    /\ UNCHANGED <<pc, arg, loc, obs, ran, err, ret, held, calls, fx>>

Next ==
    \/ Call
    \/ ToStr
    \/ ReadWav
    \/ Resample
    \/ PadOrTruncate
    \/ FrameSignal
    \/ HannWindow
    \/ Rfft
    \/ Power
    \/ MelFilterBank
    \/ MelProjection
    \/ ApplyLog
    \/ Compress
    \/ Transpose
    \/ Leak
    \/ Free
    \/ FreeNull

Spec == Init /\ [][Next]_vars

---------------------------------------------------------------------------
(* apply_dynamic_range_compression and create_triangular_filter_bank as    *)
(* pure functions, each applied to every input of a bounded set.           *)

PipelineIdle ==
    /\ pc = "idle"
    /\ arg = NoArg
    /\ loc = NoLocals
    /\ obs = NoObs
    /\ ran = <<>>
    /\ err = "none"
    /\ ret = MelSpectrogramData_default
    /\ heap = <<>>
    /\ held = {}
    /\ calls = 0

LogVals == {LOG_EPSILON * ONE, 0 - 2 * ONE, 0}

Matrices == UNION { [1..r -> [1..c -> LogVals]] : r \in 0..MaxDim, c \in 0..MaxDim }

InitDRC ==
    /\ PipelineIdle
    /\ \E m \in Matrices :
         fx = [fn |-> "apply_dynamic_range_compression", input |-> m,
               output |-> <<>>, done |-> FALSE]

ApplyDRC ==
    /\ fx.fn = "apply_dynamic_range_compression"
    /\ ~fx.done
    /\ fx' = [fx EXCEPT !.output = apply_dynamic_range_compression(fx.input).val,
                        !.done = TRUE]
    /\ UNCHANGED <<pc, arg, loc, obs, ran, err, ret, heap, held, calls>>

SpecDRC == InitDRC /\ [][ApplyDRC]_vars

Freqs == 0..MaxFreq

NonDecreasing(s) == \A i \in 1..(Len(s) - 1) : s[i] <= s[i + 1]

FftFreqs == UNION { [1..n -> Freqs] : n \in 1..2 }

\* mel points are evenly spaced and mel_to_hertz_slaney does not decrease
FilterFreqs == { s \in UNION { [1..n -> Freqs] : n \in 2..4 } : NonDecreasing(s) }

InitFB ==
    /\ PipelineIdle
    /\ \E a \in FftFreqs, b \in FilterFreqs :
         fx = [fn |-> "create_triangular_filter_bank",
               input |-> [fft_freqs |-> a, filter_freqs |-> b],
               output |-> <<>>, done |-> FALSE]

ApplyFB ==
    /\ fx.fn = "create_triangular_filter_bank"
    /\ ~fx.done
    /\ fx' = [fx EXCEPT
                !.output = create_triangular_filter_bank(fx.input.fft_freqs,
                                                         fx.input.filter_freqs),
                !.done = TRUE]
    /\ UNCHANGED <<pc, arg, loc, obs, ran, err, ret, heap, held, calls>>

SpecFB == InitFB /\ [][ApplyFB]_vars

---------------------------------------------------------------------------
(* Properties of extract_whisper_features and free_spectrogram_data,       *)
(* checked under Spec.                                                     *)

Returned == pc = "idle" /\ calls > 0
Succeeded == Returned /\ err = "none"

AllCells(matrix, v) ==
    \A i \in DOMAIN matrix : \A m \in DOMAIN matrix[i] : matrix[i][m] = v

\* C1: whenever a stage reports an error the call returns the null record
\* (data null, n_frames 0, n_mels 0) and no later stage has run; otherwise
\* every stage has run and the record has a non-null data, n_frames = 3000
\* and n_mels = 80 over 80 * 3000 = 240000 elements, whatever the length of
\* the decoded waveform; no call ends in an index out of range.
C1_NullRecordOrFullShape ==
    /\ pc # "panicked"
    /\ pc # "idle" => err = "none"
    /\ Returned =>
         IF err # "none"
         THEN /\ ret = MelSpectrogramData_default
              /\ ret.data = Null /\ ret.n_frames = 0 /\ ret.n_mels = 0
              /\ \E n \in 1..Len(Stages) :
                   Stages[n] = err /\ ran = SubSeq(Stages, 1, n)
         ELSE /\ ran = Stages
              /\ ret.data # Null
              /\ ret.n_frames = N_FRAMES
              /\ ret.n_mels = N_MELS
              /\ ret.data \in DOMAIN heap
              /\ heap[ret.data].len = N_MELS * N_FRAMES
              /\ Len(loc.flat_spectrogram) = N_MELS * N_FRAMES
    /\ WHISPER_N_MELS * WHISPER_N_FRAMES = 240000

\* a waveform longer than the target length went through every stage
C1_Witness == Succeeded /\ obs.decoded > TARGET_LEN /\ ret.data # Null

\* C2: the returned buffer is mel-major: element m * n_frames + t is the
\* cell of frame t and mel band m of the compressed spectrogram, for every
\* band m and frame t, and every element of the buffer is one such cell.
C2_MelMajorLayout ==
    Succeeded =>
        LET flat == loc.flat_spectrogram
            final == loc.final_spectrogram
        IN /\ Len(flat) = N_MELS * N_FRAMES
           /\ Len(final) = N_FRAMES
           /\ \A t \in 1..N_FRAMES : Len(final[t]) = N_MELS
           /\ \A m \in 0..(N_MELS - 1) : \A t \in 0..(N_FRAMES - 1) :
                flat[m * N_FRAMES + t + 1] = final[t + 1][m + 1]
           /\ \A p \in 1..Len(flat) :
                Cardinality({ mt \in (0..(N_MELS - 1)) \X (0..(N_FRAMES - 1)) :
                                mt[1] * N_FRAMES + mt[2] + 1 = p }) = 1

\* the cells of the compressed spectrogram are all different
C2_Witness ==
    /\ Succeeded
    /\ \A t1, t2 \in 1..N_FRAMES : \A m1, m2 \in 1..N_MELS :
         <<t1, m1>> # <<t2, m2>> =>
            loc.final_spectrogram[t1][m1] # loc.final_spectrogram[t2][m2]

\* C4: free_spectrogram_data on the null record changes nothing; a buffer is
\* released at most once, with the length it was allocated with, which is
\* n_frames * n_mels of the record (240000 for 3000 and 80), and a record
\* the caller still holds names a live buffer of that length.
C4_OwnershipHandoff ==
    /\ free_spectrogram_data(heap, MelSpectrogramData_default) = heap
    /\ \A a \in DOMAIN heap :
         /\ heap[a].len = N_MELS * N_FRAMES
         /\ heap[a].releases <= 1
         /\ heap[a].releases = 0 => heap[a].live
         /\ heap[a].releases = 1 =>
              ~heap[a].live /\ heap[a].released_len = heap[a].len
    /\ \A r \in held :
         /\ r.data \in DOMAIN heap
         /\ heap[r.data].live
         /\ free_len(r.n_frames, r.n_mels) = heap[r.data].len
    /\ Cardinality(held) = Cardinality({ a \in DOMAIN heap : heap[a].live })
    /\ free_len(WHISPER_N_FRAMES, WHISPER_N_MELS) = 240000

\* one buffer was released and another is still held
C4_Witness ==
    /\ \E a \in DOMAIN heap : heap[a].releases = 1
    /\ held # {}

\* C5: the call ends in the decoder's error when the file does not open or
\* when the read of a sample fails.
C5_DecodeErrorOnReadFailure ==
    (obs.open_failed \/ obs.read_failed) =>
        /\ pc = "idle"
        /\ err = "read_wav"
        /\ ret = MelSpectrogramData_default

\* C6: for a file of zeros at the target rate the resampler is skipped,
\* every power cell is 0, every mel energy is 0, every log-mel value is the
\* logarithm of the epsilon, -10, which is then the maximum, and every
\* output value is (-10 + 4) / 4 = -1.5.
C6_SilentFile ==
    obs.silent =>
        /\ pc = "pad_or_truncate" => loc.resampled = Zeros(obs.decoded)
        /\ pc \in {"mel_filter_bank", "mel_projection"} =>
             /\ Len(loc.power_spec) >= N_FRAMES
             /\ AllCells(loc.power_spec, "Z")
        /\ pc = "apply_log" =>
             /\ Len(loc.mel_spectrogram) = N_FRAMES
             /\ AllCells(loc.mel_spectrogram, "Z")
        /\ pc = "apply_dynamic_range_compression" =>
             /\ AllCells(loc.mel_log_spectrogram, LOG_EPSILON * ONE)
             /\ max_val(loc.mel_log_spectrogram) = (0 - 10) * ONE
        /\ pc \in {"transpose", "leak"} =>
             AllCells(loc.final_spectrogram, (0 - 3 * ONE) \div 2)
        /\ Succeeded =>
             /\ AllCells(loc.final_spectrogram, (0 - 3 * ONE) \div 2)
             /\ Len(loc.flat_spectrogram) = N_MELS * N_FRAMES
             /\ \A p \in 1..Len(loc.flat_spectrogram) :
                  loc.flat_spectrogram[p] = (0 - 3 * ONE) \div 2

\* thirty seconds of zeros came back as a buffer
C6_Witness == Succeeded /\ obs.silent /\ obs.decoded = TARGET_LEN

WhisperLengths == {0, 1, 479999, 480000, 480001, 960000}

\* C7: pad_or_truncate never fails and returns target_len + frame_length
\* samples (480400 for 480000 and 400): frame_length / 2 zeros, the first
\* min(L, target_len) input samples, zeros up to target_len, and
\* frame_length / 2 zeros.
C7_PadOrTruncate ==
    /\ err # "pad_or_truncate"
    /\ pc = "frame_signal" =>
         LET L == Len(loc.resampled)
             kept == Min2(L, TARGET_LEN)
             pad == FRAME_LENGTH \div 2
             p == loc.padded
         IN /\ Len(p) = TARGET_LEN + FRAME_LENGTH
            /\ Len(p) = padded_len(L, TARGET_LEN, FRAME_LENGTH)
            /\ \A i \in 1..pad : p[i] = 0 /\ p[pad + TARGET_LEN + i] = 0
            /\ \A i \in 1..kept : p[pad + i] = loc.resampled[i]
            /\ \A i \in (kept + 1)..TARGET_LEN : p[pad + i] = 0
    /\ \A L \in WhisperLengths :
         padded_len(L, WHISPER_TARGET_LEN, WHISPER_FRAME_LENGTH) = 480400
    /\ WHISPER_FRAME_LENGTH \div 2 = 200

\* a buffer longer than the target length with a sample that is not zero
C7_Witness ==
    /\ pc = "frame_signal"
    /\ Len(loc.resampled) > TARGET_LEN
    /\ loc.resampled[Len(loc.resampled)] # 0
    /\ loc.padded[FRAME_LENGTH \div 2 + 1] # 0

\* C8: on the padded buffer frame_signal returns one row more than the
\* frames the pipeline keeps (3001 for 480400, 400 and 160), each of
\* frame_length samples, row i being the samples from i * hop_length up to
\* i * hop_length + frame_length; the rows the pipeline keeps are the first
\* n_frames.
C8_FrameSignalRows ==
    /\ pc = "apply_hann_window" =>
         /\ Len(loc.framed) = N_FRAMES + 1
         /\ Len(loc.framed) = num_frames(Len(loc.padded), FRAME_LENGTH, HOP_LENGTH)
         /\ \A i \in 0..N_FRAMES :
              /\ Len(loc.framed[i + 1]) = FRAME_LENGTH
              /\ \A j \in 0..(FRAME_LENGTH - 1) :
                   loc.framed[i + 1][j + 1] = loc.padded[i * HOP_LENGTH + j + 1]
    /\ pc = "apply_log" => Len(loc.mel_spectrogram) = N_FRAMES
    /\ num_frames(WHISPER_TARGET_LEN + WHISPER_FRAME_LENGTH,
                  WHISPER_FRAME_LENGTH, WHISPER_HOP_LENGTH) = WHISPER_N_FRAMES + 1

\* the frames of a ramp: the last row holds samples of the input
C8_Witness ==
    /\ pc = "apply_hann_window"
    /\ Len(loc.framed) = N_FRAMES + 1
    /\ \E j \in 1..FRAME_LENGTH : loc.framed[N_FRAMES][j] # 0

\* C8 as stated: exactly n_frames rows (3000)
C8_ExactlyThreeThousandRows ==
    /\ pc = "apply_hann_window" =>
         /\ Len(loc.framed) = N_FRAMES
         /\ \A i \in 0..(Len(loc.framed) - 1) :
              /\ Len(loc.framed[i + 1]) = FRAME_LENGTH
              /\ \A j \in 0..(FRAME_LENGTH - 1) :
                   loc.framed[i + 1][j + 1] = loc.padded[i * HOP_LENGTH + j + 1]
    /\ num_frames(WHISPER_TARGET_LEN + WHISPER_FRAME_LENGTH,
                  WHISPER_FRAME_LENGTH, WHISPER_HOP_LENGTH) = WHISPER_N_FRAMES

---------------------------------------------------------------------------
(* Properties of apply_dynamic_range_compression, checked under SpecDRC.   *)

Compressed ==
    /\ fx.fn = "apply_dynamic_range_compression"
    /\ fx.done
    /\ fx.input # <<>>
    /\ fx.input[1] # <<>>

CellsOf(matrix) == { <<i, m>> : i \in DOMAIN matrix, m \in DOMAIN matrix[1] }

\* the largest value of the matrix, by its definition
Greatest(matrix) ==
    CHOOSE v \in { matrix[c[1]][c[2]] : c \in CellsOf(matrix) } :
        \A c \in CellsOf(matrix) : matrix[c[1]][c[2]] <= v

\* C3: with max the largest log-mel value, every output value v satisfies
\* (max + 4) / 4 >= v >= (max + 4) / 4 - 2.
C3_RangeBound ==
    Compressed =>
        LET mx == Greatest(fx.input)
        IN \A c \in CellsOf(fx.input) :
             /\ 4 * fx.output[c[1]][c[2]] <= mx + 4 * ONE
             /\ 4 * fx.output[c[1]][c[2]] >= (mx + 4 * ONE) - 8 * ONE

\* a matrix whose values are more than 8.0 apart
C3_Witness ==
    /\ Compressed
    /\ \E c, d \in CellsOf(fx.input) :
         /\ fx.input[c[1]][c[2]] = 0
         /\ fx.input[d[1]][d[2]] = LOG_EPSILON * ONE
         /\ 4 * fx.output[d[1]][d[2]] = 0 - 4 * ONE

\* C3 as stated: (max - 4) / 4 >= v >= (max - 4) / 4 - 2
C3_RangeBoundBelowFloor ==
    Compressed =>
        LET mx == Greatest(fx.input)
        IN \A c \in CellsOf(fx.input) :
             /\ 4 * fx.output[c[1]][c[2]] <= mx - 4 * ONE
             /\ 4 * fx.output[c[1]][c[2]] >= (mx - 4 * ONE) - 8 * ONE

\* C10: on a matrix with cells the output has the shape of the input and
\* every value v becomes (max(v, max_val - 8) + 4) / 4, max_val being the
\* largest value of the whole matrix; the outputs lie between
\* (max_val - 4) / 4 and (max_val + 4) / 4, some output is (max_val + 4) / 4,
\* and the order of the values is never inverted.
C10_CompressionMap ==
    Compressed =>
        LET in == fx.input
            out == fx.output
            mx == Greatest(fx.input)
        IN /\ DOMAIN out = DOMAIN in
           /\ \A i \in DOMAIN in : DOMAIN out[i] = DOMAIN in[i]
           /\ mx = max_val(in)
           /\ \A c \in CellsOf(in) :
                /\ 4 * out[c[1]][c[2]] = Max2(in[c[1]][c[2]], mx - 8 * ONE) + 4 * ONE
                /\ 4 * out[c[1]][c[2]] >= mx - 4 * ONE
                /\ 4 * out[c[1]][c[2]] <= mx + 4 * ONE
           /\ \E c \in CellsOf(in) : 4 * out[c[1]][c[2]] = mx + 4 * ONE
           /\ \A c, d \in CellsOf(in) :
                in[c[1]][c[2]] <= in[d[1]][d[2]] => out[c[1]][c[2]] <= out[d[1]][d[2]]

\* the largest value is in the last row, a value of the first row is
\* raised to the floor and another is not
C10_Witness ==
    /\ Compressed
    /\ Len(fx.input) > 1
    /\ Len(fx.input[1]) > 1
    /\ fx.input[1][1] = LOG_EPSILON * ONE
    /\ fx.input[1][2] = 0 - 2 * ONE
    /\ fx.input[Len(fx.input)][1] = 0
    /\ fx.output[1][1] = 0 - ONE
    /\ 2 * fx.output[1][2] = ONE

---------------------------------------------------------------------------
(* Properties of create_triangular_filter_bank, checked under SpecFB.      *)

Built ==
    /\ fx.fn = "create_triangular_filter_bank"
    /\ fx.done

\* C9: the weight of bin k in filter m is max(0, min(down, up)) with
\* down = (fft_freqs[k] - filter_freqs[m]) / (filter_freqs[m+1] - filter_freqs[m])
\* and up = (filter_freqs[m+2] - fft_freqs[k]) / (filter_freqs[m+2] - filter_freqs[m+1]),
\* a slope over a zero spacing being 0 (the filters counted from 0, filter
\* m over filter_freqs[m], [m+1], [m+2]); the bank has one row per bin and
\* one column per filter, and two filter frequencies, no filter, are an
\* error.
C9_TriangularWeight ==
    Built =>
        LET fft == fx.input.fft_freqs
            f == fx.input.filter_freqs
            n == Len(f) - 2
            down(k, m) == IF f[m + 1] - f[m] = 0 THEN 0
                          ELSE FDiv(fft[k] - f[m], f[m + 1] - f[m])
            up(k, m) == IF f[m + 2] - f[m + 1] = 0 THEN 0
                        ELSE FDiv(f[m + 2] - fft[k], f[m + 2] - f[m + 1])
        IN IF n <= 0
           THEN ~fx.output.ok
           ELSE /\ fx.output.ok
                /\ DOMAIN fx.output.val = 1..Len(fft)
                /\ \A k \in 1..Len(fft) :
                     /\ DOMAIN fx.output.val[k] = 1..n
                     /\ \A m \in 1..n :
                          /\ fx.output.val[k][m] = Max2(0, Min2(down(k, m), up(k, m)))
                          /\ fx.output.val[k][m] >= 0
                          /\ fx.output.val[k][m] <= ONE

\* a bin at the centre of a filter has the weight 1, and a filter with a
\* zero spacing has the weight 0
C9_Witness ==
    /\ Built
    /\ fx.output.ok
    /\ \E k \in DOMAIN fx.output.val : \E m \in DOMAIN fx.output.val[k] :
         fx.output.val[k][m] = ONE
    /\ \E m \in 1..(Len(fx.input.filter_freqs) - 1) :
         fx.input.filter_freqs[m + 1] = fx.input.filter_freqs[m]

\* C9 as stated: down = (filter_freqs[m+1] - fft_freqs[k]) / (filter_freqs[m+1] - filter_freqs[m])
\* and up = (fft_freqs[k] - filter_freqs[m+1]) / (filter_freqs[m+2] - filter_freqs[m+1])
C9_WeightFromCentre ==
    (Built /\ fx.output.ok) =>
        LET fft == fx.input.fft_freqs
            f == fx.input.filter_freqs
            n == Len(f) - 2
            down(k, m) == IF f[m + 1] - f[m] = 0 THEN 0
                          ELSE FDiv(f[m + 1] - fft[k], f[m + 1] - f[m])
            up(k, m) == IF f[m + 2] - f[m + 1] = 0 THEN 0
                        ELSE FDiv(fft[k] - f[m + 1], f[m + 2] - f[m + 1])
        IN \A k \in 1..Len(fft) : \A m \in 1..n :
             fx.output.val[k][m] = Max2(0, Min2(down(k, m), up(k, m)))

====
